---- MODULE Spec2Model ----
(***************************************************************************)
(* Model of generate_sample_data.py: the sample-data generator of the      *)
(* Synapse CDC lab.  One process run is a straight-line program; an action *)
(* is one loop iteration or one write_csv call.  Python objects live in    *)
(* `heap` and are referred to by index, so that the snapshot dictionaries  *)
(* and the delta lists share record objects exactly as the code does.      *)
(* A Python dict is a sequence of <<key, value>> pairs (insertion order).  *)
(***************************************************************************)
EXTENDS Integers, Sequences, FiniteSets, TLC

(***************************************************************************)
(* Bounds of the model.                                                    *)
(***************************************************************************)
\* The library generator (Mersenne Twister) is not reproduced bit for bit:
\* the model ranges over NumStreams outcome sequences a seeded generator
\* may produce.
NumStreams == 24
\* random.uniform is sampled on a grid of UniformSteps + 1 points, both
\* ends of the interval included.
UniformSteps == 5
\* How many times the program is run on the same output directory.
MaxRuns == 2

(***************************************************************************)
(* Program constants.                                                      *)
(***************************************************************************)
SEED == 42

FIRST_NAMES ==
    << "James", "Mary", "John", "Patricia", "Robert", "Jennifer", "Michael", "Linda",
       "William", "Elizabeth", "David", "Barbara", "Richard", "Susan", "Joseph", "Jessica",
       "Thomas", "Sarah", "Charles", "Karen", "Christopher", "Nancy", "Daniel", "Lisa",
       "Matthew", "Betty", "Anthony", "Margaret", "Mark", "Sandra" >>

LAST_NAMES ==
    << "Smith", "Johnson", "Williams", "Brown", "Jones", "Garcia", "Miller", "Davis",
       "Rodriguez", "Martinez", "Hernandez", "Lopez", "Gonzalez", "Wilson", "Anderson",
       "Thomas", "Taylor", "Moore", "Jackson", "Martin", "Lee", "Perez", "Thompson",
       "White", "Harris", "Sanchez", "Clark", "Ramirez", "Lewis", "Robinson" >>

CITIES ==
    << "New York", "Los Angeles", "Chicago", "Houston", "Phoenix", "Philadelphia",
       "San Antonio", "San Diego", "Dallas", "San Jose", "Austin", "Jacksonville",
       "Fort Worth", "Columbus", "Charlotte", "Seattle", "Denver", "Boston" >>

STATES ==
    << "NY", "CA", "IL", "TX", "AZ", "PA", "TX", "CA", "TX", "CA",
       "TX", "FL", "TX", "OH", "NC", "WA", "CO", "MA" >>

PRODUCT_CATEGORIES == << "Electronics", "Clothing", "Home & Garden", "Sports", "Books", "Toys" >>
PRODUCT_ADJECTIVES == << "Premium", "Basic", "Pro", "Ultra", "Eco", "Smart", "Classic", "Modern" >>
PRODUCT_NOUNS == << "Widget", "Gadget", "Device", "Tool", "Kit", "Set", "Pack", "Bundle" >>

domains == << "gmail.com", "yahoo.com", "outlook.com", "hotmail.com", "company.com" >>

\* The six output files (file1_path .. file3_path of the two pipelines).
c_file1_path == "customers_with_ts_initial.csv"
c_file2_path == "customers_with_ts_delta1.csv"
\* Faulty variant: the third write reuses file2_path.
c_file3_path_wrong == "customers_with_ts_delta1.csv"
c_file3_path == "customers_with_ts_delta2.csv"
p_file1_path == "products_no_ts_initial.csv"
p_file2_path == "products_no_ts_delta1.csv"
p_file3_path == "products_no_ts_delta2.csv"
CustomerFiles == << c_file1_path, c_file2_path, c_file3_path >>
ProductFiles == << p_file1_path, p_file2_path, p_file3_path >>
FileNames == { c_file1_path, c_file2_path, c_file3_path,
               p_file1_path, p_file2_path, p_file3_path }

\* range(a, b) of Python: a, a+1, ..., b-1.
Range(a, b) == [k \in 1..(b - a) |-> a + k - 1]

\* The identifier ranges and enumerations of the two pipelines.
c_initial_ids == Range(1, 21)
\* Faulty variant: range(21, 25), one identifier short.
c_new1_ids_short == Range(21, 25)
c_new1_ids == Range(21, 26)
c_mod1_ids == << 3, 7, 15 >>
c_new2_ids == Range(26, 29)
c_mod2_ids == << 1, 10, 21, 25 >>
p_initial_ids == Range(1, 26)
\* Faulty variant: range(26, 30), one identifier short.
p_new1_ids_short == Range(26, 30)
p_new1_ids == Range(26, 31)
p_mod1_ids == << 2, 8, 15, 22 >>
p_new2_ids == Range(31, 35)
\* Faulty variant: 28 listed twice, 30 never.
p_mod2_ids_typo == << 1, 5, 12, 26, 28, 28 >>
p_mod2_ids == << 1, 5, 12, 26, 28, 30 >>

(***************************************************************************)
(* datetime values are minutes since 2025-01-01 00:00:00.                  *)
(***************************************************************************)
base_time == 10 * 60
\* Faulty variant: timedelta(hours=1).
delta1_time_early == base_time + 1 * 60
delta1_time == base_time + 2 * 60
delta2_time == base_time + 4 * 60

\* dt.strftime("%Y-%m-%d %H:%M:%S") for a dt within 2025-01-01: the fields of
\* the string, most significant first.  Zero-padded fixed-width fields make
\* string order the lexicographic order of this tuple.
format_timestamp(dt) == << 2025, 1, 1, dt \div 60, dt % 60, 0 >>

(***************************************************************************)
(* Python dict: a sequence of <<key, value>> pairs in insertion order.     *)
(***************************************************************************)
DictKeys(d) == [k \in 1..Len(d) |-> d[k][1]]
DictValues(d) == [k \in 1..Len(d) |-> d[k][2]]
DictHas(d, key) == \E k \in 1..Len(d) : d[k][1] = key
DictGet(d, key) == d[CHOOSE k \in 1..Len(d) : d[k][1] = key][2]
\* d[key] = value: an existing key keeps its position, a new key is appended.
DictSet(d, key, value) ==
    IF DictHas(d, key)
    THEN [k \in 1..Len(d) |-> IF d[k][1] = key THEN << key, value >> ELSE d[k]]
    ELSE Append(d, << key, value >>)

(***************************************************************************)
(* The shared pseudo-random source.  The generator is deterministic: its   *)
(* state after a draw and the value drawn depend on its state alone.       *)
(***************************************************************************)
Nxt(s) == (s * 75 + 74) % 65537

RECURSIVE Adv(_, _)
\* The generator state after n draws from state s.
Adv(s, n) == IF n = 0 THEN s ELSE Adv(Nxt(s), n - 1)

\* The values below are computed from the state reached by the draw.
randbelow(s, n) == s % n
randint(s, a, b) == a + randbelow(s, b - a + 1)
choice(s, seq) == seq[1 + randbelow(s, Len(seq))]
\* random.uniform(lo, hi) for lo, hi in the same unit (cents, percent).
uniform(s, lo, hi) == lo + ((hi - lo) * randbelow(s, UniformSteps + 1)) \div UniformSteps

\* round(n / d) to the nearest integer, ties to even (Python's round).
RoundDiv(n, d) ==
    LET q == n \div d
        r == n % d
    IN  IF 2 * r < d THEN q
        ELSE IF 2 * r > d THEN q + 1
        ELSE IF q % 2 = 0 THEN q ELSE q + 1

VARIABLES
    pc,               \* the statement the run is at
    idx,              \* position of the current loop in its identifier list
    run,              \* which run of the program this is (1, 2, ...)
    stream,           \* which outcome sequence the library generator produces
    rng,              \* state of the shared pseudo-random source
    heap,             \* the record objects, by object index
    customers,        \* dict: customer identifier -> object index
    products,         \* dict: product identifier -> object index
    delta1_records,   \* list of object indexes
    delta2_records,   \* list of object indexes
    files,            \* the output directory: file name -> content
    first_run_files   \* the output directory as the first run left it

vars == << pc, idx, run, stream, rng, heap, customers, products,
           delta1_records, delta2_records, files, first_run_files >>

NoFile == [exists |-> FALSE, header |-> << >>, rows |-> << >>]

\* Faulty variant: the generator is seeded from the system, differently in each process.
random_seed_from_os(a, r) == Nxt((a + 4099 * stream + 977 * r) % 65537)

\* The generator state random.seed(a) leaves in process run r.  Seeding is
\* a function of the seed alone: r is not used.
random_seed(a, r) == Nxt((a + 4099 * stream) % 65537)

Init ==
    /\ pc = "c_init"
    /\ idx = 1
    /\ run = 1
    /\ stream \in 0..(NumStreams - 1)
    /\ rng = random_seed(SEED, 1)
    /\ heap = << >>
    /\ customers = << >>
    /\ products = << >>
    /\ delta1_records = << >>
    /\ delta2_records = << >>
    /\ files = [f \in FileNames |-> NoFile]
    /\ first_run_files = [f \in FileNames |-> NoFile]

(***************************************************************************)
(* Field synthesizers and record builders.  `s` is the generator state     *)
(* before the first draw of the function; a function that makes n draws    *)
(* leaves the generator at Adv(s, n).                                      *)
(***************************************************************************)
\* f"{first.lower()}.{last.lower()}{id}@{domain}": the parts of the string
\* (lower-casing is not represented).  One draw.
generate_email(s, first_name, last_name, customer_id) ==
    << first_name, last_name, customer_id, choice(Adv(s, 1), domains) >>

\* "(AAA) EEE-LLLL": the three digit groups.  Three draws.
generate_phone(s) ==
    << randint(Adv(s, 1), 200, 999),
       randint(Adv(s, 2), 200, 999),
       randint(Adv(s, 3), 1000, 9999) >>

\* Eight draws.  credit_limit is in cents.
generate_customer_record(s, customer_id, timestamp) ==
    LET first_name == choice(Adv(s, 1), FIRST_NAMES)
        last_name == choice(Adv(s, 2), LAST_NAMES)
        city_idx == randint(Adv(s, 3), 0, Len(CITIES) - 1)
    IN  << << "customer_id", customer_id >>,
           << "first_name", first_name >>,
           << "last_name", last_name >>,
           << "email", generate_email(Adv(s, 3), first_name, last_name, customer_id) >>,
           << "phone", generate_phone(Adv(s, 4)) >>,
           << "city", CITIES[city_idx + 1] >>,
           << "state", STATES[city_idx + 1] >>,
           << "credit_limit", uniform(Adv(s, 8), 100000, 5000000) >>,
           << "last_updated_ts", format_timestamp(timestamp) >> >>

\* Seven draws.  price is in cents; the formatted identifiers are kept as
\* <<prefix, number>>.
generate_product_record(s, product_id) ==
    LET category == choice(Adv(s, 1), PRODUCT_CATEGORIES)
        name == << choice(Adv(s, 2), PRODUCT_ADJECTIVES),
                   choice(Adv(s, 3), PRODUCT_NOUNS), product_id >>
    IN  << << "product_id", << "PROD-", product_id >> >>,
           << "product_name", name >>,
           << "category", category >>,
           << "price", uniform(Adv(s, 4), 999, 99999) >>,
           << "stock_quantity", randint(Adv(s, 5), 0, 500) >>,
           << "supplier_id", << "SUP-", randint(Adv(s, 6), 1, 20) >> >>,
           << "is_active", choice(Adv(s, 7), << "true", "true", "true", "false" >>) >> >>

(***************************************************************************)
(* The bodies of the four mutation loops, on one record.                   *)
(***************************************************************************)
\* Lines 134-136: one draw.
\* Faulty variant: the timestamp is stored under a misspelt key.
modify_customer_delta1_typo(rec, s) ==
    LET timestamp == delta1_time + randint(Adv(s, 1), 0, 30)
        scaled == DictSet(rec, "credit_limit", RoundDiv(DictGet(rec, "credit_limit") * 12, 10))
    IN  DictSet(scaled, "last_update_ts", format_timestamp(timestamp))

\* Faulty variant: the limit is multiplied by 12.
modify_customer_delta1_x12(rec, s) ==
    LET timestamp == delta1_time + randint(Adv(s, 1), 0, 30)
        scaled == DictSet(rec, "credit_limit", DictGet(rec, "credit_limit") * 12)
    IN  DictSet(scaled, "last_updated_ts", format_timestamp(timestamp))

modify_customer_delta1(rec, s) ==
    LET timestamp == delta1_time + randint(Adv(s, 1), 0, 30)
        scaled == DictSet(rec, "credit_limit", RoundDiv(DictGet(rec, "credit_limit") * 12, 10))
    IN  DictSet(scaled, "last_updated_ts", format_timestamp(timestamp))

\* Lines 157-160: five draws.
\* Faulty variant: the state is reassigned along with the city.
modify_customer_delta2_with_state(rec, s) ==
    LET timestamp == delta2_time + randint(Adv(s, 1), 0, 30)
        city_idx == randbelow(Adv(s, 2), Len(CITIES))
        moved == DictSet(DictSet(rec, "city", CITIES[city_idx + 1]), "state", STATES[city_idx + 1])
        called == DictSet(moved, "phone", generate_phone(Adv(s, 2)))
    IN  DictSet(called, "last_updated_ts", format_timestamp(timestamp))

modify_customer_delta2(rec, s) ==
    LET timestamp == delta2_time + randint(Adv(s, 1), 0, 30)
        moved == DictSet(rec, "city", choice(Adv(s, 2), CITIES))
        called == DictSet(moved, "phone", generate_phone(Adv(s, 2)))
    IN  DictSet(called, "last_updated_ts", format_timestamp(timestamp))

\* Lines 220-221: two draws.  The multiplier is in percent.
modify_product_delta1(rec, s) ==
    LET priced == DictSet(rec, "price",
                          RoundDiv(DictGet(rec, "price") * uniform(Adv(s, 1), 80, 130), 100))
    IN  DictSet(priced, "stock_quantity", randint(Adv(s, 2), 0, 500))

\* Lines 240-242: three draws.
modify_product_delta2(rec, s) ==
    LET priced == DictSet(rec, "price",
                          RoundDiv(DictGet(rec, "price") * uniform(Adv(s, 1), 90, 120), 100))
        stocked == DictSet(priced, "stock_quantity", randint(Adv(s, 2), 0, 500))
    IN  DictSet(stocked, "is_active", choice(Adv(s, 3), << "true", "false" >>))

(***************************************************************************)
(* write_csv.  A cell holds the value csv writes the text of.              *)
(***************************************************************************)
\* DictWriter's row of one record: the record's value for each field name,
\* the empty string for a field the record lacks.
RowOf(rec, fieldnames) ==
    [j \in 1..Len(fieldnames) |->
        IF DictHas(rec, fieldnames[j]) THEN DictGet(rec, fieldnames[j]) ELSE ""]

\* DictWriter raises ValueError on a record with a key outside fieldnames.
HasExtraKey(rec, fieldnames) ==
    \E k \in 1..Len(rec) : \A j \in 1..Len(fieldnames) : fieldnames[j] # rec[k][1]

\* How many records writerows writes before it raises (all, if it does not).
RowsWritten(records_list, fieldnames) ==
    IF \E k \in 1..Len(records_list) : HasExtraKey(records_list[k], fieldnames)
    THEN (CHOOSE k \in 1..Len(records_list) :
            /\ HasExtraKey(records_list[k], fieldnames)
            /\ \A m \in 1..(k - 1) : ~HasExtraKey(records_list[m], fieldnames)) - 1
    ELSE Len(records_list)

write_csv_raises(records_list) ==
    /\ Len(records_list) > 0
    /\ RowsWritten(records_list, DictKeys(records_list[1])) < Len(records_list)

\* The output directory after write_csv(filepath, records).
write_csv(fs, filepath, records_list) ==
    IF Len(records_list) = 0
    THEN fs
    ELSE LET fieldnames == DictKeys(records_list[1])
         IN  [fs EXCEPT ![filepath] =
                 [exists |-> TRUE,
                  header |-> fieldnames,
                  rows |-> [k \in 1..RowsWritten(records_list, fieldnames) |->
                               RowOf(records_list[k], fieldnames)]]]

\* The record objects a list of object indexes refers to.
Deref(refs) == [k \in 1..Len(refs) |-> heap[refs[k]]]

(***************************************************************************)
(* The run.  Each loop action is one iteration; `idx` is the position in   *)
(* the loop's identifier list.                                             *)
(***************************************************************************)
\* The end of one iteration of a loop over `ids`, followed by `after`.
LoopStep(ids, after) ==
    IF idx = Len(ids)
    THEN pc' = after /\ idx' = 1
    ELSE pc' = pc /\ idx' = idx + 1

\* ---- generate_customers_with_timestamp ----

\* Lines 112-114.
InsertInitialCustomer ==
    /\ pc = "c_init"
    /\ LET i == c_initial_ids[idx]
           timestamp == base_time + randint(Adv(rng, 1), 0, 60)
           record == generate_customer_record(Adv(rng, 1), i, timestamp)
       IN  /\ heap' = Append(heap, record)
           /\ customers' = DictSet(customers, i, Len(heap) + 1)
    /\ rng' = Adv(rng, 9)
    /\ LoopStep(c_initial_ids, "c_write1")
    /\ UNCHANGED << run, stream, products, delta1_records, delta2_records,
                    files, first_run_files >>

\* Lines 116-123: write the full snapshot, then delta1_records = [].
WriteInitialCustomers ==
    /\ pc = "c_write1"
    /\ files' = write_csv(files, c_file1_path, Deref(DictValues(customers)))
    /\ pc' = IF write_csv_raises(Deref(DictValues(customers))) THEN "ValueError" ELSE "c_new1"
    /\ delta1_records' = << >>
    /\ UNCHANGED << idx, run, stream, rng, heap, customers, products,
                    delta2_records, first_run_files >>

\* Lines 126-130.
InsertDelta1Customer ==
    /\ pc = "c_new1"
    /\ LET i == c_new1_ids[idx]
           timestamp == delta1_time + randint(Adv(rng, 1), 0, 30)
           record == generate_customer_record(Adv(rng, 1), i, timestamp)
       IN  /\ heap' = Append(heap, record)
           /\ delta1_records' = Append(delta1_records, Len(heap) + 1)
           /\ customers' = DictSet(customers, i, Len(heap) + 1)
    /\ rng' = Adv(rng, 9)
    /\ LoopStep(c_new1_ids, "c_mod1")
    /\ UNCHANGED << run, stream, products, delta2_records, files, first_run_files >>

\* Lines 133-137.  The timestamp is drawn before customers[cid] is looked up.
ModifyDelta1Customer ==
    /\ pc = "c_mod1"
    /\ rng' = Adv(rng, 1)
    /\ LET cid == c_mod1_ids[idx]
       IN  IF DictHas(customers, cid)
           THEN LET ref == DictGet(customers, cid)
                IN  /\ heap' = [heap EXCEPT ![ref] = modify_customer_delta1(heap[ref], rng)]
                    /\ delta1_records' = Append(delta1_records, ref)
                    /\ LoopStep(c_mod1_ids, "c_write2")
           ELSE /\ pc' = "KeyError"
                /\ UNCHANGED << idx, heap, delta1_records >>
    /\ UNCHANGED << run, stream, customers, products, delta2_records,
                    files, first_run_files >>

\* Lines 139-146: write delta1, then delta2_records = [].
WriteDelta1Customers ==
    /\ pc = "c_write2"
    /\ files' = write_csv(files, c_file2_path, Deref(delta1_records))
    /\ pc' = IF write_csv_raises(Deref(delta1_records)) THEN "ValueError" ELSE "c_new2"
    /\ delta2_records' = << >>
    /\ UNCHANGED << idx, run, stream, rng, heap, customers, products,
                    delta1_records, first_run_files >>

\* Lines 149-153.
InsertDelta2Customer ==
    /\ pc = "c_new2"
    /\ LET i == c_new2_ids[idx]
           timestamp == delta2_time + randint(Adv(rng, 1), 0, 30)
           record == generate_customer_record(Adv(rng, 1), i, timestamp)
       IN  /\ heap' = Append(heap, record)
           /\ delta2_records' = Append(delta2_records, Len(heap) + 1)
           /\ customers' = DictSet(customers, i, Len(heap) + 1)
    /\ rng' = Adv(rng, 9)
    /\ LoopStep(c_new2_ids, "c_mod2")
    /\ UNCHANGED << run, stream, products, delta1_records, files, first_run_files >>

\* Lines 156-161.  The timestamp is drawn before customers[cid] is looked up.
ModifyDelta2Customer ==
    /\ pc = "c_mod2"
    /\ LET cid == c_mod2_ids[idx]
       IN  IF DictHas(customers, cid)
           THEN LET ref == DictGet(customers, cid)
                IN  /\ heap' = [heap EXCEPT ![ref] = modify_customer_delta2(heap[ref], rng)]
                    /\ delta2_records' = Append(delta2_records, ref)
                    /\ rng' = Adv(rng, 5)
                    /\ LoopStep(c_mod2_ids, "c_write3")
           ELSE /\ pc' = "KeyError"
                /\ rng' = Adv(rng, 1)
                /\ UNCHANGED << idx, heap, delta2_records >>
    /\ UNCHANGED << run, stream, customers, products, delta1_records,
                    files, first_run_files >>

\* Lines 163-167 and 190-200: write delta2 and return (the function's
\* objects are released); generate_products_without_timestamp starts with
\* products = {}.
WriteDelta2Customers ==
    /\ pc = "c_write3"
    /\ files' = write_csv(files, c_file3_path, Deref(delta2_records))
    /\ pc' = IF write_csv_raises(Deref(delta2_records)) THEN "ValueError" ELSE "p_init"
    /\ heap' = << >>
    /\ customers' = << >>
    /\ delta1_records' = << >>
    /\ delta2_records' = << >>
    /\ products' = << >>
    /\ UNCHANGED << idx, run, stream, rng, first_run_files >>

\* ---- generate_products_without_timestamp ----

\* Lines 201-202.
InsertInitialProduct ==
    /\ pc = "p_init"
    /\ LET i == p_initial_ids[idx]
       IN  /\ heap' = Append(heap, generate_product_record(rng, i))
           /\ products' = DictSet(products, i, Len(heap) + 1)
    /\ rng' = Adv(rng, 7)
    /\ LoopStep(p_initial_ids, "p_write1")
    /\ UNCHANGED << run, stream, customers, delta1_records, delta2_records,
                    files, first_run_files >>

\* Lines 204-210.
WriteInitialProducts ==
    /\ pc = "p_write1"
    /\ files' = write_csv(files, p_file1_path, Deref(DictValues(products)))
    /\ pc' = IF write_csv_raises(Deref(DictValues(products))) THEN "ValueError" ELSE "p_new1"
    /\ delta1_records' = << >>
    /\ UNCHANGED << idx, run, stream, rng, heap, customers, products,
                    delta2_records, first_run_files >>

\* Lines 213-216.
InsertDelta1Product ==
    /\ pc = "p_new1"
    /\ LET i == p_new1_ids[idx]
       IN  /\ heap' = Append(heap, generate_product_record(rng, i))
           /\ delta1_records' = Append(delta1_records, Len(heap) + 1)
           /\ products' = DictSet(products, i, Len(heap) + 1)
    /\ rng' = Adv(rng, 7)
    /\ LoopStep(p_new1_ids, "p_mod1")
    /\ UNCHANGED << run, stream, customers, delta2_records, files, first_run_files >>

\* Lines 219-222.  products[pid] is looked up before the multiplier is drawn.
ModifyDelta1Product ==
    /\ pc = "p_mod1"
    /\ LET pid == p_mod1_ids[idx]
       IN  IF DictHas(products, pid)
           THEN LET ref == DictGet(products, pid)
                IN  /\ heap' = [heap EXCEPT ![ref] = modify_product_delta1(heap[ref], rng)]
                    /\ delta1_records' = Append(delta1_records, ref)
                    /\ rng' = Adv(rng, 2)
                    /\ LoopStep(p_mod1_ids, "p_write2")
           ELSE /\ pc' = "KeyError"
                /\ UNCHANGED << idx, rng, heap, delta1_records >>
    /\ UNCHANGED << run, stream, customers, products, delta2_records,
                    files, first_run_files >>

\* Lines 224-230.
WriteDelta1Products ==
    /\ pc = "p_write2"
    /\ files' = write_csv(files, p_file2_path, Deref(delta1_records))
    /\ pc' = IF write_csv_raises(Deref(delta1_records)) THEN "ValueError" ELSE "p_new2"
    /\ delta2_records' = << >>
    /\ UNCHANGED << idx, run, stream, rng, heap, customers, products,
                    delta1_records, first_run_files >>

\* Lines 233-236.
InsertDelta2Product ==
    /\ pc = "p_new2"
    /\ LET i == p_new2_ids[idx]
       IN  /\ heap' = Append(heap, generate_product_record(rng, i))
           /\ delta2_records' = Append(delta2_records, Len(heap) + 1)
           /\ products' = DictSet(products, i, Len(heap) + 1)
    /\ rng' = Adv(rng, 7)
    /\ LoopStep(p_new2_ids, "p_mod2")
    /\ UNCHANGED << run, stream, customers, delta1_records, files, first_run_files >>

\* Lines 239-243.  products[pid] is looked up before the multiplier is drawn.
ModifyDelta2Product ==
    /\ pc = "p_mod2"
    /\ LET pid == p_mod2_ids[idx]
       IN  IF DictHas(products, pid)
           THEN LET ref == DictGet(products, pid)
                IN  /\ heap' = [heap EXCEPT ![ref] = modify_product_delta2(heap[ref], rng)]
                    /\ delta2_records' = Append(delta2_records, ref)
                    /\ rng' = Adv(rng, 3)
                    /\ LoopStep(p_mod2_ids, "p_write3")
           ELSE /\ pc' = "KeyError"
                /\ UNCHANGED << idx, rng, heap, delta2_records >>
    /\ UNCHANGED << run, stream, customers, products, delta1_records,
                    files, first_run_files >>

\* Lines 245-249 and 275-304: write delta2, return to main, which prints the
\* manifest and ends the process.
WriteDelta2Products ==
    /\ pc = "p_write3"
    /\ files' = write_csv(files, p_file3_path, Deref(delta2_records))
    /\ pc' = IF write_csv_raises(Deref(delta2_records)) THEN "ValueError" ELSE "done"
    /\ heap' = << >>
    /\ products' = << >>
    /\ delta1_records' = << >>
    /\ delta2_records' = << >>
    /\ UNCHANGED << idx, run, stream, rng, customers, first_run_files >>

\* The program is run again (lines 307-308): a new process imports the
\* module, which seeds the generator (line 26), and calls main().  The
\* output directory is what the previous run left.
Rerun ==
    /\ pc = "done"
    /\ run < MaxRuns
    /\ run' = run + 1
    /\ rng' = random_seed(SEED, run + 1)
    /\ pc' = "c_init"
    /\ idx' = 1
    /\ first_run_files' = IF run = 1 THEN files ELSE first_run_files
    /\ UNCHANGED << stream, heap, customers, products, delta1_records,
                    delta2_records, files >>

Next ==
    \/ InsertInitialCustomer
    \/ WriteInitialCustomers
    \/ InsertDelta1Customer
    \/ ModifyDelta1Customer
    \/ WriteDelta1Customers
    \/ InsertDelta2Customer
    \/ ModifyDelta2Customer
    \/ WriteDelta2Customers
    \/ InsertInitialProduct
    \/ WriteInitialProducts
    \/ InsertDelta1Product
    \/ ModifyDelta1Product
    \/ WriteDelta1Products
    \/ InsertDelta2Product
    \/ ModifyDelta2Product
    \/ WriteDelta2Products
    \/ Rerun

Spec == Init /\ [][Next]_vars

(***************************************************************************)
(* Vocabulary of the properties.                                           *)
(***************************************************************************)
\* The fixed column lists of the output contract.
CUSTOMER_COLUMNS ==
    << "customer_id", "first_name", "last_name", "email", "phone", "city", "state",
       "credit_limit", "last_updated_ts" >>
PRODUCT_COLUMNS ==
    << "product_id", "product_name", "category", "price", "stock_quantity",
       "supplier_id", "is_active" >>

SeqToSet(q) == {q[k] : k \in 1..Len(q)}

\* The cell of row k of a file under the column called `name`.
Cell(file, k, name) ==
    file.rows[k][CHOOSE j \in 1..Len(file.header) : file.header[j] = name]

\* The identifiers of a file's rows, in row order.
CustomerIds(file) == [k \in 1..Len(file.rows) |-> Cell(file, k, "customer_id")]
ProductIds(file) == [k \in 1..Len(file.rows) |-> Cell(file, k, "product_id")[2]]

\* The row of a file that carries identifier cid.
RowWithCustomer(file, cid) == CHOOSE k \in 1..Len(file.rows) : Cell(file, k, "customer_id") = cid
RowWithProduct(file, pid) == CHOOSE k \in 1..Len(file.rows) : Cell(file, k, "product_id")[2] = pid

\* The statements after generate_customers_with_timestamp has returned.
CustomersReturned ==
    pc \in {"p_init", "p_write1", "p_new1", "p_mod1", "p_write2", "p_new2", "p_mod2",
            "p_write3", "done"}

(***************************************************************************)
(* C1: the customer delta1 file holds exactly 8 rows with customer_id      *)
(* sequence 21,22,23,24,25,3,7,15 and the delta2 file exactly 7 rows with  *)
(* sequence 26,27,28,1,10,21,25: new records first in ascending order,     *)
(* then the mutated records in enumeration order.                          *)
(***************************************************************************)
C1_CustomerDeltaRows ==
    /\ files[c_file2_path].exists =>
          CustomerIds(files[c_file2_path]) = << 21, 22, 23, 24, 25, 3, 7, 15 >>
    /\ files[c_file3_path].exists =>
          CustomerIds(files[c_file3_path]) = << 26, 27, 28, 1, 10, 21, 25 >>
    /\ CustomersReturned => files[c_file2_path].exists /\ files[c_file3_path].exists

C1_Witness ==
    /\ pc = "p_init"
    /\ run = 1
    /\ Len(files[c_file2_path].rows) = 8
    /\ Len(files[c_file3_path].rows) = 7

(***************************************************************************)
(* C2: in every customer record of the snapshot and in every row of every  *)
(* customer file, the state is STATES[i] for the index i at which the city *)
(* is CITIES[i], also after the generation-3 mutation.                     *)
(***************************************************************************)
Aligned(city, state) == \A k \in 1..Len(CITIES) : CITIES[k] = city => STATES[k] = state

C2_CityStateAligned ==
    /\ \A k \in 1..Len(customers) :
          LET rec == heap[customers[k][2]]
          IN  Aligned(DictGet(rec, "city"), DictGet(rec, "state"))
    /\ \A n \in 1..Len(CustomerFiles) :
          LET file == files[CustomerFiles[n]]
          IN  \A k \in 1..Len(file.rows) :
                 Aligned(Cell(file, k, "city"), Cell(file, k, "state"))

(***************************************************************************)
(* C3 as stated: every credit_limit written to a customer file lies within *)
(* [1000, 50000] (in cents), the scaled ones of customers 3, 7 and 15 in   *)
(* the delta1 file included.                                               *)
(***************************************************************************)
C3_CreditWithinBounds ==
    \A n \in 1..Len(CustomerFiles) :
       LET file == files[CustomerFiles[n]]
       IN  \A k \in 1..Len(file.rows) :
              /\ Cell(file, k, "credit_limit") >= 100000
              /\ Cell(file, k, "credit_limit") <= 5000000

(***************************************************************************)
(* C3 amended: every credit_limit written to a customer file lies within   *)
(* [1000, 50000], except those of customers 3, 7 and 15 in the delta1      *)
(* file, which lie within [1200, 60000].                                   *)
(***************************************************************************)
C3_CreditWithinScaledBounds ==
    \A n \in 1..Len(CustomerFiles) :
       LET file == files[CustomerFiles[n]]
       IN  \A k \in 1..Len(file.rows) :
              IF CustomerFiles[n] = c_file2_path /\ Cell(file, k, "customer_id") \in {3, 7, 15}
              THEN /\ Cell(file, k, "credit_limit") >= 120000
                   /\ Cell(file, k, "credit_limit") <= 6000000
              ELSE /\ Cell(file, k, "credit_limit") >= 100000
                   /\ Cell(file, k, "credit_limit") <= 5000000

C3_Witness ==
    /\ files[c_file2_path].exists
    /\ \E cid \in {3, 7, 15} :
          Cell(files[c_file2_path], RowWithCustomer(files[c_file2_path], cid),
               "credit_limit") > 5000000

DeltaHolds(ids, expected) ==
    /\ SeqToSet(ids) = expected
    /\ Len(ids) = Cardinality(expected)

C5_DeltaMembership ==
    /\ files[c_file2_path].exists =>
          DeltaHolds(CustomerIds(files[c_file2_path]), (21..25) \cup {3, 7, 15})
    /\ files[c_file3_path].exists =>
          DeltaHolds(CustomerIds(files[c_file3_path]), (26..28) \cup {1, 10, 21, 25})
    /\ files[p_file2_path].exists =>
          /\ DeltaHolds(ProductIds(files[p_file2_path]), (26..30) \cup {2, 8, 15, 22})
          /\ Len(files[p_file2_path].rows) = 9
    /\ files[p_file3_path].exists =>
          /\ DeltaHolds(ProductIds(files[p_file3_path]), (31..34) \cup {1, 5, 12, 26, 28, 30})
          /\ Len(files[p_file3_path].rows) = 10
    /\ pc = "done" => \A f \in FileNames : files[f].exists

C5_Witness ==
    /\ pc = "done"
    /\ run = 1
    /\ Len(files[p_file2_path].rows) = 9
    /\ Len(files[p_file3_path].rows) = 10
    /\ Len(files[p_file1_path].rows) = 25

(***************************************************************************)
(* C6: every record of a scenario has exactly the scenario's column list   *)
(* as its keys, in that order, whenever it is handed to write_csv; every   *)
(* file's header is that list and every row is as long as the header;      *)
(* customer files have the last_updated_ts column, product files do not.   *)
(***************************************************************************)
HandedToWriteCsv ==
    CASE pc \in {"c_write1", "p_write1"} -> Deref(DictValues(IF pc = "c_write1" THEN customers ELSE products))
      [] pc \in {"c_write2", "p_write2"} -> Deref(delta1_records)
      [] pc \in {"c_write3", "p_write3"} -> Deref(delta2_records)
      [] OTHER -> << >>

WellFormedFile(file, columns) ==
    file.exists =>
       /\ file.header = columns
       /\ \A k \in 1..Len(file.rows) : Len(file.rows[k]) = Len(file.header)

C6_FixedColumns ==
    /\ pc # "ValueError"
    /\ \A k \in 1..Len(HandedToWriteCsv) :
          DictKeys(HandedToWriteCsv[k]) =
             IF pc \in {"c_write1", "c_write2", "c_write3"} THEN CUSTOMER_COLUMNS ELSE PRODUCT_COLUMNS
    /\ \A n \in 1..Len(CustomerFiles) :
          /\ WellFormedFile(files[CustomerFiles[n]], CUSTOMER_COLUMNS)
          /\ files[CustomerFiles[n]].exists =>
                "last_updated_ts" \in SeqToSet(files[CustomerFiles[n]].header)
    /\ \A n \in 1..Len(ProductFiles) :
          /\ WellFormedFile(files[ProductFiles[n]], PRODUCT_COLUMNS)
          /\ "last_updated_ts" \notin SeqToSet(files[ProductFiles[n]].header)

C6_Witness ==
    /\ pc = "p_write3"
    /\ run = 1
    /\ Len(HandedToWriteCsv) = 10
    /\ files[c_file3_path].exists
    /\ files[p_file2_path].exists

(***************************************************************************)
(* C7: when a mutation step executes, the identifier it targets is a key   *)
(* of the scenario's snapshot; no lookup of an absent identifier happens.  *)
(***************************************************************************)
C7_TargetsPresent ==
    /\ pc # "KeyError"
    /\ pc = "c_mod1" => DictHas(customers, c_mod1_ids[idx])
    /\ pc = "c_mod2" => DictHas(customers, c_mod2_ids[idx])
    /\ pc = "p_mod1" => DictHas(products, p_mod1_ids[idx])
    /\ pc = "p_mod2" => DictHas(products, p_mod2_ids[idx])

\* The last generation-3 product mutation is about to run on product 30,
\* inserted in generation 2; those of 26 and 28 have run.
C7_Witness ==
    /\ pc = "p_mod2"
    /\ p_mod2_ids[idx] = 30
    /\ DictHas(products, 30)
    /\ ~DictHas(SubSeq(products, 1, 25), 30)
    /\ Len(delta2_records) = 9

(***************************************************************************)
(* C8: a mutation step changes only its own fields of the targeted record: *)
(* customers generation 2 credit_limit and last_updated_ts; generation 3   *)
(* city, phone and last_updated_ts; products generation 2 price and        *)
(* stock_quantity; generation 3 price, stock_quantity and is_active.  All  *)
(* other fields of the record and all other records are unchanged.         *)
(***************************************************************************)
OnlyFieldsChange(ref, allowed) ==
    /\ Len(heap') = Len(heap)
    /\ \A o \in 1..Len(heap) :
          /\ DictKeys(heap'[o]) = DictKeys(heap[o])
          /\ \A k \in 1..Len(heap[o]) :
                heap'[o][k][2] # heap[o][k][2] => o = ref /\ heap[o][k][1] \in allowed

MutationFrame ==
    /\ pc = "c_mod1" =>
          /\ customers' = customers
          /\ OnlyFieldsChange(DictGet(customers, c_mod1_ids[idx]),
                              {"credit_limit", "last_updated_ts"})
    /\ pc = "c_mod2" =>
          /\ customers' = customers
          /\ OnlyFieldsChange(DictGet(customers, c_mod2_ids[idx]),
                              {"city", "phone", "last_updated_ts"})
    /\ pc = "p_mod1" =>
          /\ products' = products
          /\ OnlyFieldsChange(DictGet(products, p_mod1_ids[idx]),
                              {"price", "stock_quantity"})
    /\ pc = "p_mod2" =>
          /\ products' = products
          /\ OnlyFieldsChange(DictGet(products, p_mod2_ids[idx]),
                              {"price", "stock_quantity", "is_active"})

C8_MutationFrame == [][MutationFrame]_vars

\* Generation 3 has moved customer 1 to a city of another state than the
\* one its record keeps.
C8_Witness ==
    /\ pc = "c_mod2"
    /\ idx = 2
    /\ LET rec == heap[DictGet(customers, 1)]
       IN  /\ DictGet(rec, "city") # Cell(files[c_file1_path], 1, "city")
           /\ DictGet(rec, "state") = Cell(files[c_file1_path], 1, "state")
           /\ ~Aligned(DictGet(rec, "city"), DictGet(rec, "state"))

(***************************************************************************)
(* C9: a file holds the values its records have when its write_csv call    *)
(* runs, and no later step changes a written file: the initial files hold  *)
(* the pre-mutation values, each delta file the post-mutation values of    *)
(* its generation, and the delta1 rows of customers 21 and 25 (products    *)
(* 26, 28, 30) keep their generation-2 values through generation 3.        *)
(***************************************************************************)
\* The timestamp strings compare as their field tuples do.
TsLess(a, b) == \E j \in 1..Len(a) : a[j] < b[j] /\ \A m \in 1..(j - 1) : a[m] = b[m]
TsLeq(a, b) == a = b \/ TsLess(a, b)

CustomerCell(f, cid, name) == Cell(files[f], RowWithCustomer(files[f], cid), name)
ProductCell(f, pid, name) == Cell(files[f], RowWithProduct(files[f], pid), name)

\* The rows write_csv produces from the records as they are now.
RowsNow(refs, columns) == [k \in 1..Len(refs) |-> RowOf(heap[refs[k]], columns)]

\* Whether file f has a row for the identifier.
HasCustomer(f, cid) == \E k \in 1..Len(files[f].rows) : Cell(files[f], k, "customer_id") = cid
HasProduct(f, pid) == \E k \in 1..Len(files[f].rows) : Cell(files[f], k, "product_id")[2] = pid

WrittenValues ==
    /\ \A cid \in {3, 7, 15} :
          HasCustomer(c_file1_path, cid) /\ HasCustomer(c_file2_path, cid) =>
             /\ CustomerCell(c_file1_path, cid, "credit_limit") <= 5000000
             /\ CustomerCell(c_file2_path, cid, "credit_limit") =
                   RoundDiv(CustomerCell(c_file1_path, cid, "credit_limit") * 12, 10)
             /\ TsLess(CustomerCell(c_file1_path, cid, "last_updated_ts"), << 2025, 1, 1, 12, 0, 0 >>)
             /\ TsLeq(<< 2025, 1, 1, 12, 0, 0 >>, CustomerCell(c_file2_path, cid, "last_updated_ts"))
    /\ \A cid \in {1, 10} :
          HasCustomer(c_file1_path, cid) /\ HasCustomer(c_file3_path, cid) =>
             /\ TsLess(CustomerCell(c_file1_path, cid, "last_updated_ts"), << 2025, 1, 1, 12, 0, 0 >>)
             /\ TsLeq(<< 2025, 1, 1, 14, 0, 0 >>, CustomerCell(c_file3_path, cid, "last_updated_ts"))
    /\ \A cid \in {21, 25} :
          HasCustomer(c_file2_path, cid) /\ HasCustomer(c_file3_path, cid) =>
             /\ TsLess(CustomerCell(c_file2_path, cid, "last_updated_ts"), << 2025, 1, 1, 14, 0, 0 >>)
             /\ TsLeq(<< 2025, 1, 1, 14, 0, 0 >>, CustomerCell(c_file3_path, cid, "last_updated_ts"))
             /\ Aligned(CustomerCell(c_file2_path, cid, "city"), CustomerCell(c_file2_path, cid, "state"))
    /\ \A pid \in {2, 8, 15, 22} :
          HasProduct(p_file1_path, pid) /\ HasProduct(p_file2_path, pid) =>
             /\ ProductCell(p_file1_path, pid, "price") <= 99999
             /\ \E m \in 80..130 :
                   ProductCell(p_file2_path, pid, "price") =
                      RoundDiv(ProductCell(p_file1_path, pid, "price") * m, 100)
    /\ \A pid \in {1, 5, 12} :
          HasProduct(p_file1_path, pid) /\ HasProduct(p_file3_path, pid) =>
             /\ ProductCell(p_file1_path, pid, "price") <= 99999
             /\ \E m \in 90..120 :
                   ProductCell(p_file3_path, pid, "price") =
                      RoundDiv(ProductCell(p_file1_path, pid, "price") * m, 100)
    /\ \A pid \in {26, 28, 30} :
          HasProduct(p_file2_path, pid) /\ HasProduct(p_file3_path, pid) =>
             /\ ProductCell(p_file2_path, pid, "price") <= 99999
             /\ \E m \in 90..120 :
                   ProductCell(p_file3_path, pid, "price") =
                      RoundDiv(ProductCell(p_file2_path, pid, "price") * m, 100)

WriteTakesValuesNow ==
    /\ pc = "c_write1" => files'[c_file1_path].rows = RowsNow(DictValues(customers), CUSTOMER_COLUMNS)
    /\ pc = "c_write2" => files'[c_file2_path].rows = RowsNow(delta1_records, CUSTOMER_COLUMNS)
    /\ pc = "c_write3" => files'[c_file3_path].rows = RowsNow(delta2_records, CUSTOMER_COLUMNS)
    /\ pc = "p_write1" => files'[p_file1_path].rows = RowsNow(DictValues(products), PRODUCT_COLUMNS)
    /\ pc = "p_write2" => files'[p_file2_path].rows = RowsNow(delta1_records, PRODUCT_COLUMNS)
    /\ pc = "p_write3" => files'[p_file3_path].rows = RowsNow(delta2_records, PRODUCT_COLUMNS)

WrittenFileKept == \A f \in FileNames : files[f].exists => files'[f] = files[f]

C9_WrittenFilesKeepValues ==
    /\ []WrittenValues
    /\ [][WriteTakesValuesNow /\ WrittenFileKept]_vars

\* Generation 3 has mutated customer 21 in place: the shared object now
\* differs from the row the delta1 file keeps for it.
C9_Witness ==
    /\ pc = "c_write3"
    /\ run = 1
    /\ RowOf(heap[DictGet(customers, 21)], CUSTOMER_COLUMNS) # files[c_file2_path].rows[1]
    /\ heap[delta1_records[1]] = heap[DictGet(customers, 21)]
    /\ files[c_file2_path].rows[1][1] = 21

(***************************************************************************)
(* C10: every row of a later customer file has a last_updated_ts strictly  *)
(* later than every row of every earlier one (initial rows in 10:00-11:00, *)
(* delta1 rows in 12:00-12:30, delta2 rows in 14:00-14:30); each mutation  *)
(* strictly increases the record's last_updated_ts; the records of the     *)
(* snapshot later than everything already written are exactly the rows of  *)
(* the next delta file.                                                    *)
(***************************************************************************)
TsColumn(file) == [k \in 1..Len(file.rows) |-> Cell(file, k, "last_updated_ts")]

AllWithin(tss, lo, hi) == \A k \in 1..Len(tss) : TsLeq(lo, tss[k]) /\ TsLeq(tss[k], hi)
AllBefore(early, late) ==
    \A a \in 1..Len(early) : \A b \in 1..Len(late) : TsLess(early[a], late[b])

\* The identifiers a consumer selects from the snapshot: the records later
\* than every timestamp of `seen`.
SelectedAfter(seen) ==
    {customers[k][1] : k \in
        {k \in 1..Len(customers) :
            \A a \in 1..Len(seen) :
               TsLess(seen[a], DictGet(heap[customers[k][2]], "last_updated_ts"))}}

TimestampsOrdered ==
    /\ AllWithin(TsColumn(files[c_file1_path]), << 2025, 1, 1, 10, 0, 0 >>, << 2025, 1, 1, 11, 0, 0 >>)
    /\ AllWithin(TsColumn(files[c_file2_path]), << 2025, 1, 1, 12, 0, 0 >>, << 2025, 1, 1, 12, 30, 0 >>)
    /\ AllWithin(TsColumn(files[c_file3_path]), << 2025, 1, 1, 14, 0, 0 >>, << 2025, 1, 1, 14, 30, 0 >>)
    /\ AllBefore(TsColumn(files[c_file1_path]), TsColumn(files[c_file2_path]))
    /\ AllBefore(TsColumn(files[c_file1_path]), TsColumn(files[c_file3_path]))
    /\ AllBefore(TsColumn(files[c_file2_path]), TsColumn(files[c_file3_path]))
    /\ pc = "c_new2" /\ idx = 1 =>
          SelectedAfter(TsColumn(files[c_file1_path])) = SeqToSet(CustomerIds(files[c_file2_path]))
    /\ pc = "c_write3" =>
          SelectedAfter(TsColumn(files[c_file1_path]) \o TsColumn(files[c_file2_path])) =
             {DictGet(heap[delta2_records[k]], "customer_id") : k \in 1..Len(delta2_records)}

MutationAdvancesTimestamp ==
    /\ pc = "c_mod1" =>
          TsLess(DictGet(heap[DictGet(customers, c_mod1_ids[idx])], "last_updated_ts"),
                 DictGet(heap'[DictGet(customers, c_mod1_ids[idx])], "last_updated_ts"))
    /\ pc = "c_mod2" =>
          TsLess(DictGet(heap[DictGet(customers, c_mod2_ids[idx])], "last_updated_ts"),
                 DictGet(heap'[DictGet(customers, c_mod2_ids[idx])], "last_updated_ts"))

C10_TimestampsAdvance ==
    /\ []TimestampsOrdered
    /\ [][MutationAdvancesTimestamp]_vars

\* An initial row written at the upper end of its window (11:00) and a
\* delta1 row at the lower end of its window (12:00).
C10_Witness ==
    /\ pc = "c_write3"
    /\ \E k \in 1..Len(files[c_file1_path].rows) :
          TsColumn(files[c_file1_path])[k] = << 2025, 1, 1, 11, 0, 0 >>
    /\ \E k \in 1..Len(files[c_file2_path].rows) :
          TsColumn(files[c_file2_path])[k] = << 2025, 1, 1, 12, 0, 0 >>
    /\ Len(delta2_records) = 7

====
